---- MODULE Spec2Model ----
(***************************************************************************)
(* heif2jpeg: the memory-aware parallel batch scheduler (BatchProcessor),  *)
(* its workers, process_file and convert_heif_to_jpeg, as a state machine. *)
(***************************************************************************)
EXTENDS Integers, Sequences, FiniteSets, TLC

\* ------------------------------------------------------------------ bounds
MaxJobs == 3
MaxWorkers == 2
MaxBudgetMb == 450
MaxThreads == 6
MaxDimSteps == 11

\* ------------------------------------------------------- program constants
MinMemoryPerThreadMb == 100
OverheadBytes == 10 * 1024 * 1024
BytesPerMb == 1024 * 1024

\* --------------------------------------------------------- the environment
\* The source files a run can be given.  heif_ok: libheif reads the file and
\* finds a primary image handle; decode_ok: heif_decode_image succeeds.
InputFiles ==
  { [input_path |-> "a.heic", exists |-> TRUE,  regular |-> TRUE,  ext |-> ".heic",
     heif_ok |-> TRUE,  width |-> 1000, height |-> 1000, decode_ok |-> TRUE],
    [input_path |-> "a.heif", exists |-> TRUE,  regular |-> TRUE,  ext |-> ".heif",
     heif_ok |-> TRUE,  width |-> 4000, height |-> 3000, decode_ok |-> TRUE],
    [input_path |-> "b.heic", exists |-> TRUE,  regular |-> TRUE,  ext |-> ".heic",
     heif_ok |-> FALSE, width |-> 0,    height |-> 0,    decode_ok |-> FALSE],
    [input_path |-> "c.txt",  exists |-> TRUE,  regular |-> TRUE,  ext |-> ".txt",
     heif_ok |-> FALSE, width |-> 0,    height |-> 0,    decode_ok |-> FALSE],
    [input_path |-> "d.heic", exists |-> FALSE, regular |-> FALSE, ext |-> ".heic",
     heif_ok |-> FALSE, width |-> 0,    height |-> 0,    decode_ok |-> FALSE],
    [input_path |-> "e.heic", exists |-> TRUE,  regular |-> TRUE,  ext |-> ".heic",
     heif_ok |-> TRUE,  width |-> 2000, height |-> 1500, decode_ok |-> TRUE] }

Paths == { f.input_path : f \in InputFiles }

File(p) == CHOOSE f \in InputFiles : f.input_path = p

\* change_extension(input_path, ".jpg"): the stem with the new extension
change_extension(p) ==
  CASE p = "a.heic" -> "a.jpg"
    [] p = "a.heif" -> "a.jpg"
    [] p = "b.heic" -> "b.jpg"
    [] p = "c.txt"  -> "c.jpg"
    [] p = "d.heic" -> "d.jpg"
    [] p = "e.heic" -> "e.jpg"

OutputPaths == { change_extension(p) : p \in Paths }

\* the destinations present before the run: e.jpg, and d.jpg whose source has
\* been removed since
InitialOutputs ==
  [o \in OutputPaths |-> IF o \in {"d.jpg", "e.jpg"} THEN "old" ELSE "absent"]

\* the constructor arguments of the runs: an unset budget, a small budget with
\* overwriting, a large budget, and a large budget with a width limit
Configs ==
  { [memory_budget_mb |-> 0,    force_overwrite |-> FALSE, max_width |-> 0,    max_height |-> 0],
    [memory_budget_mb |-> 50,   force_overwrite |-> TRUE,  max_width |-> 0,    max_height |-> 0],
    [memory_budget_mb |-> 1000, force_overwrite |-> FALSE, max_width |-> 0,    max_height |-> 0],
    [memory_budget_mb |-> 1000, force_overwrite |-> TRUE,  max_width |-> 3000, max_height |-> 0] }

Workers == 1 .. MaxWorkers

NoJob == [input_path |-> "", output_path |-> "", estimated_memory_mb |-> 0]

Max(a, b) == IF a >= b THEN a ELSE b

\* std::ceil(bytes * 1.5 / (1024 * 1024))
CeilMb(bytes) == (bytes * 3 + 2 * BytesPerMb - 1) \div (2 * BytesPerMb)

\* mutant: a file that cannot be read gets the largest estimate
estimate_memory_requirementWorstCase(p) ==
  LET f == File(p)
      rgb_memory == f.width * f.height * 3
      jpeg_memory == f.width * f.height * 4
  IN  IF ~f.exists \/ ~f.heif_ok THEN 1000000
      ELSE CeilMb(rgb_memory + jpeg_memory + OverheadBytes)

\* estimate_memory_requirement(image_path): 0 when the file cannot be read or
\* has no primary image
estimate_memory_requirement(p) ==
  LET f == File(p)
      rgb_memory == f.width * f.height * 3
      jpeg_memory == f.width * f.height * 4
  IN  IF ~f.exists \/ ~f.heif_ok THEN 0
      ELSE CeilMb(rgb_memory + jpeg_memory + OverheadBytes)

\* get_heif_dimensions succeeds
get_heif_dimensions(p) == File(p).exists /\ File(p).heif_ok

\* mutant: the comparison turned round (largest job first)
ImageJobLessFlipped(a, b) == a.estimated_memory_mb < b.estimated_memory_mb

\* ImageJob::operator< : a < b iff a needs more memory than b
ImageJobLess(a, b) == a.estimated_memory_mb > b.estimated_memory_mb

\* std::priority_queue::top : an element no other element is greater than
Top(q) == { j \in q : \A k \in q : ~ImageJobLess(j, k) }

\* mutant: the 100 MB floor left out
PerThreadMbNoFloor(budget, threads) == budget \div threads

\* std::max(100UL, memory_budget_mb / thread_count)
PerThreadMb(budget, threads) == Max(MinMemoryPerThreadMb, budget \div threads)

\* -------------------------------------------------------------------- state
VARIABLES
  pc_main,              \* position of the main thread
  memory_budget_mb,     \* constructor argument
  thread_count,         \* BatchProcessor::thread_count
  force_overwrite,      \* BatchProcessor::force_overwrite
  max_width,            \* BatchProcessor::max_width
  max_height,           \* BatchProcessor::max_height
  memory_per_thread_mb, \* BatchProcessor::memory_per_thread_mb
  job_queue,            \* BatchProcessor::job_queue
  queue_mutex,          \* holder of BatchProcessor::queue_mutex, 0 when free
  success_count, fail_count, skip_count,
  spawned,              \* threads emplaced by process_all
  joined,               \* threads joined by process_all
  pc,                   \* position of each worker thread
  current_job,          \* worker_thread's local current_job
  max_memory_arg,       \* max_memory_mb argument of the running process_file
  result,               \* outcome of the running process_file
  outputs,              \* contents of the destination files
  enqueued,             \* history: jobs pushed by add_job
  popped,               \* history: jobs removed from the queue, in order
  invoked,              \* history: process_file calls per source
  warned,               \* history: sources with an over-limit warning
  outcome,              \* history: counter incremented for each source
  reason,               \* history: why the source was failed or skipped
  console_mutex,        \* holder of console_mutex, 0 when free
  run,                  \* which run of the program this is
  first_outcome,        \* history: the outcomes of the first run
  probe,                \* dimensions given to the estimate and its result
  exit_status           \* the value main returns

vars == << pc_main, memory_budget_mb, thread_count, force_overwrite, max_width,
           max_height, memory_per_thread_mb, job_queue, queue_mutex,
           success_count, fail_count, skip_count, spawned, joined, pc,
           current_job, max_memory_arg, result, outputs, enqueued, popped,
           invoked, warned, outcome, reason, console_mutex, run,
           first_outcome, probe, exit_status >>

config == << memory_budget_mb, thread_count, force_overwrite, max_width,
             max_height, memory_per_thread_mb >>
counters == << success_count, fail_count, skip_count >>
history == << enqueued, popped, invoked, warned, outcome, reason >>
mainvars == << pc_main, spawned, joined >>
locals == << current_job, max_memory_arg, result >>
aux == << console_mutex, run, first_outcome, probe, exit_status >>

Init ==
  /\ pc_main = "construct"
  /\ memory_budget_mb = 0
  /\ thread_count = 0
  /\ force_overwrite = FALSE
  /\ max_width = 0
  /\ max_height = 0
  /\ memory_per_thread_mb = 0
  /\ job_queue = {}
  /\ queue_mutex = 0
  /\ success_count = 0
  /\ fail_count = 0
  /\ skip_count = 0
  /\ spawned = 0
  /\ joined = 0
  /\ pc = [w \in Workers |-> "unspawned"]
  /\ current_job = [w \in Workers |-> NoJob]
  /\ max_memory_arg = [w \in Workers |-> 0]
  /\ result = [w \in Workers |-> "none"]
  /\ outputs = InitialOutputs
  /\ enqueued = {}
  /\ popped = << >>
  /\ invoked = [p \in Paths |-> 0]
  /\ warned = {}
  /\ outcome = [p \in Paths |-> "none"]
  /\ reason = [p \in Paths |-> "none"]
  /\ console_mutex = 0
  /\ run = 1
  /\ first_outcome = [p \in Paths |-> "none"]
  /\ probe = [called |-> FALSE, width |-> 0, height |-> 0, result |-> 0]
  /\ exit_status = 0

\* ------------------------------------------------------------- main thread
\* BatchProcessor::BatchProcessor
BatchProcessorCtor(budget, threads, force, mw, mh) ==
  /\ pc_main = "construct"
  /\ memory_budget_mb' = budget
  /\ thread_count' = threads
  /\ force_overwrite' = force
  /\ max_width' = mw
  /\ max_height' = mh
  /\ memory_per_thread_mb' = PerThreadMb(budget, threads)
  /\ pc_main' = "adding"
  /\ UNCHANGED << job_queue, queue_mutex, counters, spawned, joined, pc,
                  locals, outputs, history, aux >>

Construct ==
  \E c \in Configs, threads \in Workers :
    BatchProcessorCtor(c.memory_budget_mb, threads, c.force_overwrite,
                       c.max_width, c.max_height)

\* mutant: main goes on adding jobs after process_all has been entered
add_jobOverlapping(p) ==
  /\ pc_main \in {"adding", "spawning", "joining"}
  /\ p \notin enqueued
  /\ Cardinality(enqueued) < MaxJobs
  /\ queue_mutex = 0
  /\ LET mem_req == estimate_memory_requirement(p)
         job == [input_path |-> p, output_path |-> change_extension(p),
                 estimated_memory_mb |-> mem_req]
     IN  job_queue' = job_queue \cup {job}
  /\ enqueued' = enqueued \cup {p}
  /\ UNCHANGED << pc_main, config, queue_mutex, counters, spawned, joined, pc,
                  locals, outputs, popped, invoked, warned, outcome, reason,
                  aux >>

\* BatchProcessor::add_job, called by main for one input file
add_job(p) ==
  /\ pc_main = "adding"
  /\ p \notin enqueued
  /\ Cardinality(enqueued) < MaxJobs
  /\ queue_mutex = 0
  /\ LET mem_req == estimate_memory_requirement(p)
         job == [input_path |-> p, output_path |-> change_extension(p),
                 estimated_memory_mb |-> mem_req]
     IN  job_queue' = job_queue \cup {job}
  /\ enqueued' = enqueued \cup {p}
  /\ UNCHANGED << pc_main, config, queue_mutex, counters, spawned, joined, pc,
                  locals, outputs, popped, invoked, warned, outcome, reason,
                  aux >>

AddJob == \E p \in Paths : add_job(p)

\* BatchProcessor::process_all is entered
ProcessAllStart ==
  /\ pc_main = "adding"
  /\ pc_main' = "spawning"
  /\ UNCHANGED << config, job_queue, queue_mutex, counters, spawned, joined,
                  pc, locals, outputs, history, aux >>

\* one iteration of the emplace_back loop
SpawnThread ==
  /\ pc_main = "spawning"
  /\ spawned < thread_count
  /\ spawned' = spawned + 1
  /\ pc' = [pc EXCEPT ![spawned + 1] = "fetch"]
  /\ pc_main' = IF spawned + 1 < thread_count THEN "spawning" ELSE "joining"
  /\ UNCHANGED << config, job_queue, queue_mutex, counters, joined, locals,
                  outputs, history, aux >>

\* mutant: the thread is detached instead of joined
JoinThreadNoWait ==
  /\ pc_main = "joining"
  /\ joined < thread_count
  /\ joined' = joined + 1
  /\ pc_main' = IF joined + 1 < thread_count THEN "joining" ELSE "returned"
  /\ UNCHANGED << config, job_queue, queue_mutex, counters, spawned, pc,
                  locals, outputs, history, aux >>

\* one iteration of the join loop: blocks until the thread has returned
JoinThread ==
  /\ pc_main = "joining"
  /\ joined < thread_count
  /\ pc[joined + 1] = "drained"
  /\ joined' = joined + 1
  /\ pc_main' = IF joined + 1 < thread_count THEN "joining" ELSE "returned"
  /\ UNCHANGED << config, job_queue, queue_mutex, counters, spawned, pc,
                  locals, outputs, history, aux >>

\* mutant: a skipped file also makes the run count as failed
ExitNonZeroOnSkip ==
  /\ pc_main = "returned"
  /\ pc_main' = "exited"
  /\ exit_status' = IF fail_count + skip_count > 0 THEN 1 ELSE 0
  /\ UNCHANGED << config, job_queue, queue_mutex, counters, spawned, joined,
                  pc, locals, outputs, history, console_mutex, run,
                  first_outcome, probe >>

\* return (processor.get_fail_count() > 0) ? 1 : 0
Exit ==
  /\ pc_main = "returned"
  /\ pc_main' = "exited"
  /\ exit_status' = IF fail_count > 0 THEN 1 ELSE 0
  /\ UNCHANGED << config, job_queue, queue_mutex, counters, spawned, joined,
                  pc, locals, outputs, history, console_mutex, run,
                  first_outcome, probe >>

\* --------------------------------------------------------- worker_thread
\* mutant: the queue is entered without waiting for the mutex
LockQueueNoWait(w) ==
  /\ pc[w] = "fetch"
  /\ queue_mutex' = w
  /\ pc' = [pc EXCEPT ![w] = "locked"]
  /\ UNCHANGED << mainvars, config, job_queue, counters, locals, outputs,
                  history >>

\* std::lock_guard<std::mutex> lock(queue_mutex)
LockQueue(w) ==
  /\ pc[w] = "fetch"
  /\ queue_mutex = 0
  /\ queue_mutex' = w
  /\ pc' = [pc EXCEPT ![w] = "locked"]
  /\ UNCHANGED << mainvars, config, job_queue, counters, locals, outputs,
                  history >>

\* mutant: top() without pop()
FetchNoPop(w) ==
  /\ pc[w] = "locked"
  /\ queue_mutex = w
  /\ queue_mutex' = 0
  /\ IF job_queue = {}
       THEN /\ pc' = [pc EXCEPT ![w] = "drained"]
            /\ UNCHANGED << job_queue, current_job, popped >>
       ELSE \E j \in Top(job_queue) :
              /\ current_job' = [current_job EXCEPT ![w] = j]
              /\ job_queue' = job_queue
              /\ popped' = Append(popped, j)
              /\ pc' = [pc EXCEPT ![w] = "admit"]
  /\ UNCHANGED << mainvars, config, counters, max_memory_arg, result, outputs,
                  enqueued, invoked, warned, outcome, reason >>

\* mutant: the mutex is not released when the queue is empty
FetchKeepLock(w) ==
  /\ pc[w] = "locked"
  /\ queue_mutex = w
  /\ IF job_queue = {}
       THEN /\ pc' = [pc EXCEPT ![w] = "drained"]
            /\ UNCHANGED << job_queue, current_job, popped, queue_mutex >>
       ELSE \E j \in Top(job_queue) :
              /\ queue_mutex' = 0
              /\ current_job' = [current_job EXCEPT ![w] = j]
              /\ job_queue' = job_queue \ {j}
              /\ popped' = Append(popped, j)
              /\ pc' = [pc EXCEPT ![w] = "admit"]
  /\ UNCHANGED << mainvars, config, counters, max_memory_arg, result, outputs,
                  enqueued, invoked, warned, outcome, reason >>

\* mutant: the scope of the lock extends over the processing of the job
FetchHoldLock(w) ==
  /\ pc[w] = "locked"
  /\ queue_mutex = w
  /\ IF job_queue = {}
       THEN /\ queue_mutex' = 0
            /\ pc' = [pc EXCEPT ![w] = "drained"]
            /\ UNCHANGED << job_queue, current_job, popped >>
       ELSE \E j \in Top(job_queue) :
              /\ queue_mutex' = w
              /\ current_job' = [current_job EXCEPT ![w] = j]
              /\ job_queue' = job_queue \ {j}
              /\ popped' = Append(popped, j)
              /\ pc' = [pc EXCEPT ![w] = "admit"]
  /\ UNCHANGED << mainvars, config, counters, max_memory_arg, result, outputs,
                  enqueued, invoked, warned, outcome, reason >>

\* empty() / top() / pop() and the end of the lock's scope
Fetch(w) ==
  /\ pc[w] = "locked"
  /\ queue_mutex = w
  /\ queue_mutex' = 0
  /\ IF job_queue = {}
       THEN /\ pc' = [pc EXCEPT ![w] = "drained"]
            /\ UNCHANGED << job_queue, current_job, popped >>
       ELSE \E j \in Top(job_queue) :
              /\ current_job' = [current_job EXCEPT ![w] = j]
              /\ job_queue' = job_queue \ {j}
              /\ popped' = Append(popped, j)
              /\ pc' = [pc EXCEPT ![w] = "admit"]
  /\ UNCHANGED << mainvars, config, counters, max_memory_arg, result, outputs,
                  enqueued, invoked, warned, outcome, reason >>

\* mutant: a job over the limit is warned about and dropped
AdmitDrop(w) ==
  /\ pc[w] = "admit"
  /\ IF current_job[w].estimated_memory_mb > memory_per_thread_mb
       THEN /\ warned' = warned \cup {current_job[w].input_path}
            /\ current_job' = [current_job EXCEPT ![w] = NoJob]
            /\ pc' = [pc EXCEPT ![w] = "fetch"]
            /\ UNCHANGED max_memory_arg
       ELSE /\ max_memory_arg' = [max_memory_arg EXCEPT ![w] = memory_per_thread_mb]
            /\ pc' = [pc EXCEPT ![w] = "process_file"]
            /\ UNCHANGED << warned, current_job >>
  /\ UNCHANGED << mainvars, config, job_queue, queue_mutex, counters,
                  result, outputs, enqueued, popped, invoked, outcome, reason >>

\* mutant: a job over the limit is processed with its own estimate as limit
AdmitOwnEstimate(w) ==
  /\ pc[w] = "admit"
  /\ warned' = IF current_job[w].estimated_memory_mb > memory_per_thread_mb
                 THEN warned \cup {current_job[w].input_path}
                 ELSE warned
  /\ max_memory_arg' =
       [max_memory_arg EXCEPT ![w] =
          IF current_job[w].estimated_memory_mb > memory_per_thread_mb
            THEN current_job[w].estimated_memory_mb
            ELSE memory_per_thread_mb]
  /\ pc' = [pc EXCEPT ![w] = "process_file"]
  /\ UNCHANGED << mainvars, config, job_queue, queue_mutex, counters,
                  current_job, result, outputs, enqueued, popped, invoked,
                  outcome, reason >>

\* the per-thread limit test; both branches call process_file with
\* memory_per_thread_mb
Admit(w) ==
  /\ pc[w] = "admit"
  /\ warned' = IF current_job[w].estimated_memory_mb > memory_per_thread_mb
                 THEN warned \cup {current_job[w].input_path}
                 ELSE warned
  /\ max_memory_arg' = [max_memory_arg EXCEPT ![w] = memory_per_thread_mb]
  /\ pc' = [pc EXCEPT ![w] = "process_file"]
  /\ UNCHANGED << mainvars, config, job_queue, queue_mutex, counters,
                  current_job, result, outputs, enqueued, popped, invoked,
                  outcome, reason >>

\* mutant: the destination is looked at before the source
ProcessFileCheckOutputFirst(job) ==
  LET f == File(job.input_path)
  IN  IF outputs[job.output_path] # "absent" /\ ~force_overwrite
        THEN "output_exists"
      ELSE IF ~f.exists THEN "missing"
      ELSE IF ~f.regular THEN "not_regular"
      ELSE IF f.ext # ".heic" /\ f.ext # ".heif" THEN "extension"
      ELSE "none"

\* mutant: an existing destination is overwritten without --force
ProcessFileCheckOverwrite(job) ==
  LET f == File(job.input_path)
  IN  IF ~f.exists THEN "missing"
      ELSE IF ~f.regular THEN "not_regular"
      ELSE IF f.ext # ".heic" /\ f.ext # ".heif" THEN "extension"
      ELSE "none"

\* process_file's checks before the call of convert_heif_to_jpeg: the reason
\* the job is failed or skipped, "none" when it goes on to the conversion
ProcessFileCheck(job) ==
  LET f == File(job.input_path)
  IN  IF ~f.exists THEN "missing"
      ELSE IF ~f.regular THEN "not_regular"
      ELSE IF f.ext # ".heic" /\ f.ext # ".heif" THEN "extension"
      ELSE IF outputs[job.output_path] # "absent" /\ ~force_overwrite
        THEN "output_exists"
      ELSE "none"

\* mutant: the image is rejected only when both limits are exceeded
ConvertCheckBothLimits(p, max_memory_mb) ==
  LET f == File(p)
  IN  IF /\ (max_width > 0 \/ max_height > 0)
         /\ get_heif_dimensions(p)
         /\ (max_width > 0 /\ f.width > max_width)
         /\ (max_height > 0 /\ f.height > max_height)
        THEN "dimension"
      ELSE IF /\ max_memory_mb > 0
              /\ estimate_memory_requirement(p) > max_memory_mb
        THEN "memory"
      ELSE IF ~f.heif_ok THEN "read"
      ELSE IF ~f.decode_ok THEN "decode"
      ELSE "none"

\* mutant: the conversion has no memory check of its own
ConvertCheckNoMemory(p, max_memory_mb) ==
  LET f == File(p)
  IN  IF /\ (max_width > 0 \/ max_height > 0)
         /\ get_heif_dimensions(p)
         /\ \/ (max_width > 0 /\ f.width > max_width)
            \/ (max_height > 0 /\ f.height > max_height)
        THEN "dimension"
      ELSE IF ~f.heif_ok THEN "read"
      ELSE IF ~f.decode_ok THEN "decode"
      ELSE "none"

\* convert_heif_to_jpeg up to the decoded image: the reason it returns false,
\* "none" when the image is decoded
ConvertCheck(p, max_memory_mb) ==
  LET f == File(p)
  IN  IF /\ (max_width > 0 \/ max_height > 0)
         /\ get_heif_dimensions(p)
         /\ \/ (max_width > 0 /\ f.width > max_width)
            \/ (max_height > 0 /\ f.height > max_height)
        THEN "dimension"
      ELSE IF /\ max_memory_mb > 0
              /\ estimate_memory_requirement(p) > max_memory_mb
        THEN "memory"
      ELSE IF ~f.heif_ok THEN "read"
      ELSE IF ~f.decode_ok THEN "decode"
      ELSE "none"

\* mutant: the destination is opened for writing before the checks and the
\* decoding of convert_heif_to_jpeg
ProcessFileOpenFirst(w) ==
  LET p == current_job[w].input_path
      early == ProcessFileCheck(current_job[w])
      why == IF early # "none" THEN early ELSE ConvertCheck(p, max_memory_arg[w])
      res == IF early \in {"extension", "output_exists"} THEN "skip"
             ELSE IF why # "none" THEN "fail"
             ELSE "none"
  IN  /\ pc[w] = "process_file"
      /\ invoked' = [invoked EXCEPT ![p] = @ + 1]
      /\ result' = [result EXCEPT ![w] = res]
      /\ reason' = [reason EXCEPT ![p] = why]
      /\ pc' = [pc EXCEPT ![w] = IF res = "none" THEN "encode" ELSE "record"]
      /\ outputs' = IF early = "none"
                      THEN [outputs EXCEPT ![current_job[w].output_path] = "empty"]
                      ELSE outputs
      /\ UNCHANGED << mainvars, config, job_queue, queue_mutex, counters,
                      current_job, max_memory_arg, enqueued, popped,
                      warned, outcome >>

\* process_file, and convert_heif_to_jpeg up to the decoded image: the
\* destination is looked up here and opened for writing in the next step
ProcessFile(w) ==
  LET p == current_job[w].input_path
      early == ProcessFileCheck(current_job[w])
      why == IF early # "none" THEN early ELSE ConvertCheck(p, max_memory_arg[w])
      res == IF early \in {"extension", "output_exists"} THEN "skip"
             ELSE IF why # "none" THEN "fail"
             ELSE "none"
  IN  /\ pc[w] = "process_file"
      /\ invoked' = [invoked EXCEPT ![p] = @ + 1]
      /\ result' = [result EXCEPT ![w] = res]
      /\ reason' = [reason EXCEPT ![p] = why]
      /\ pc' = [pc EXCEPT ![w] = IF res = "none" THEN "encode" ELSE "record"]
      /\ UNCHANGED << mainvars, config, job_queue, queue_mutex, counters,
                      current_job, max_memory_arg, outputs, enqueued, popped,
                      warned, outcome >>

\* fopen(jpeg_path, "wb") and the JPEG compression
Encode(w) ==
  /\ pc[w] = "encode"
  /\ outputs' = [outputs EXCEPT ![current_job[w].output_path] =
                                  current_job[w].input_path]
  /\ result' = [result EXCEPT ![w] = "success"]
  /\ pc' = [pc EXCEPT ![w] = "record"]
  /\ UNCHANGED << mainvars, config, job_queue, queue_mutex, counters,
                  current_job, max_memory_arg, history >>

\* mutant: a skipped job is not counted
RecordLost(w) ==
  /\ pc[w] = "record"
  /\ success_count' = IF result[w] = "success" THEN success_count + 1 ELSE success_count
  /\ fail_count' = IF result[w] = "fail" THEN fail_count + 1 ELSE fail_count
  /\ skip_count' = skip_count
  /\ outcome' = [outcome EXCEPT ![current_job[w].input_path] = result[w]]
  /\ result' = [result EXCEPT ![w] = "none"]
  /\ current_job' = [current_job EXCEPT ![w] = NoJob]
  /\ pc' = [pc EXCEPT ![w] = "fetch"]
  /\ UNCHANGED << mainvars, config, job_queue, queue_mutex, max_memory_arg,
                  outputs, enqueued, popped, invoked, warned, reason >>

\* mutant: the worker gives up after a failed job
RecordExitOnFail(w) ==
  /\ pc[w] = "record"
  /\ success_count' = IF result[w] = "success" THEN success_count + 1 ELSE success_count
  /\ fail_count' = IF result[w] = "fail" THEN fail_count + 1 ELSE fail_count
  /\ skip_count' = IF result[w] = "skip" THEN skip_count + 1 ELSE skip_count
  /\ outcome' = [outcome EXCEPT ![current_job[w].input_path] = result[w]]
  /\ pc' = [pc EXCEPT ![w] = IF result[w] = "fail" THEN "drained" ELSE "fetch"]
  /\ result' = [result EXCEPT ![w] = "none"]
  /\ current_job' = [current_job EXCEPT ![w] = NoJob]
  /\ UNCHANGED << mainvars, config, job_queue, queue_mutex, max_memory_arg,
                  outputs, enqueued, popped, invoked, warned, reason >>

\* mutant: the increment is a separate read and write, and is lost when
\* another worker is recording the same result
RecordRacy(w) ==
  LET clash == \E v \in Workers \ {w} : pc[v] = "record" /\ result[v] = result[w]
      inc == IF clash THEN 0 ELSE 1
  IN  /\ pc[w] = "record"
      /\ success_count' = IF result[w] = "success" THEN success_count + inc ELSE success_count
      /\ fail_count' = IF result[w] = "fail" THEN fail_count + inc ELSE fail_count
      /\ skip_count' = IF result[w] = "skip" THEN skip_count + inc ELSE skip_count
      /\ outcome' = [outcome EXCEPT ![current_job[w].input_path] = result[w]]
      /\ result' = [result EXCEPT ![w] = "none"]
      /\ current_job' = [current_job EXCEPT ![w] = NoJob]
      /\ pc' = [pc EXCEPT ![w] = "fetch"]
      /\ UNCHANGED << mainvars, config, job_queue, queue_mutex, max_memory_arg,
                      outputs, enqueued, popped, invoked, warned, reason >>

\* mutant: a failed job is counted by the conversion and again by the worker
RecordFailTwice(w) ==
  /\ pc[w] = "record"
  /\ success_count' = IF result[w] = "success" THEN success_count + 1 ELSE success_count
  /\ fail_count' = IF result[w] = "fail" THEN fail_count + 2 ELSE fail_count
  /\ skip_count' = IF result[w] = "skip" THEN skip_count + 1 ELSE skip_count
  /\ outcome' = [outcome EXCEPT ![current_job[w].input_path] = result[w]]
  /\ result' = [result EXCEPT ![w] = "none"]
  /\ current_job' = [current_job EXCEPT ![w] = NoJob]
  /\ pc' = [pc EXCEPT ![w] = "fetch"]
  /\ UNCHANGED << mainvars, config, job_queue, queue_mutex, max_memory_arg,
                  outputs, enqueued, popped, invoked, warned, reason >>

\* success_count++ / fail_count++ / skip_count++, return to the loop head
Record(w) ==
  /\ pc[w] = "record"
  /\ success_count' = IF result[w] = "success" THEN success_count + 1 ELSE success_count
  /\ fail_count' = IF result[w] = "fail" THEN fail_count + 1 ELSE fail_count
  /\ skip_count' = IF result[w] = "skip" THEN skip_count + 1 ELSE skip_count
  /\ outcome' = [outcome EXCEPT ![current_job[w].input_path] = result[w]]
  /\ result' = [result EXCEPT ![w] = "none"]
  /\ current_job' = [current_job EXCEPT ![w] = NoJob]
  /\ pc' = [pc EXCEPT ![w] = "fetch"]
  /\ UNCHANGED << mainvars, config, job_queue, queue_mutex, max_memory_arg,
                  outputs, enqueued, popped, invoked, warned, reason >>

WorkerStep(w) ==
  \/ LockQueue(w)
  \/ Fetch(w)
  \/ Admit(w)
  \/ ProcessFile(w)
  \/ Encode(w)
  \/ Record(w)

\* a step of worker w in a run where printing is taken as one indivisible
\* step: thread_safe_print holds console_mutex for one message only and
\* waits for nothing else while it holds it
Worker(w) == WorkerStep(w) /\ UNCHANGED aux

\* ------------------------------------------------------- thread_safe_print
\* mutant: a message is also printed inside the scope of the queue lock
CallsThreadSafePrintInLock(w) ==
  \/ pc[w] = "locked"
  \/ pc[w] = "admit" /\ current_job[w].estimated_memory_mb > memory_per_thread_mb
  \/ pc[w] \in {"process_file", "encode"}

\* the next step of worker w calls thread_safe_print: the warning of
\* worker_thread, the messages of process_file and of convert_heif_to_jpeg
\* up to the decoded image (every path prints one), and the messages that
\* follow the decoding
CallsThreadSafePrint(w) ==
  \/ pc[w] = "admit" /\ current_job[w].estimated_memory_mb > memory_per_thread_mb
  \/ pc[w] \in {"process_file", "encode"}

\* std::lock_guard<std::mutex> lock(console_mutex) in thread_safe_print
ConsoleLock(w) ==
  /\ CallsThreadSafePrint(w)
  /\ console_mutex = 0
  /\ console_mutex' = w
  /\ UNCHANGED << mainvars, config, job_queue, queue_mutex, counters, pc,
                  locals, outputs, history, run, first_outcome, probe,
                  exit_status >>

\* a step of worker w with its printing: the step that prints is taken with
\* console_mutex held and ends the lock's scope
ConsoleWorker(w) ==
  /\ WorkerStep(w)
  /\ IF CallsThreadSafePrint(w)
       THEN console_mutex = w /\ console_mutex' = 0
       ELSE UNCHANGED console_mutex
  /\ UNCHANGED << run, first_outcome, probe, exit_status >>

\* the runs of the configuration with the smallest ceiling, where the
\* warning of worker_thread is printed
ConstructSmallBudget ==
  \E threads \in Workers : BatchProcessorCtor(0, threads, FALSE, 0, 0)

ConsoleNext ==
  \/ ConstructSmallBudget
  \/ AddJob
  \/ ProcessAllStart
  \/ SpawnThread
  \/ JoinThread
  \/ \E w \in Workers : ConsoleLock(w)
  \/ \E w \in Workers : ConsoleWorker(w)

ConsoleSpec == Init /\ [][ConsoleNext]_vars

Next ==
  \/ Construct
  \/ AddJob
  \/ ProcessAllStart
  \/ SpawnThread
  \/ JoinThread
  \/ \E w \in Workers : Worker(w)
  \/ Exit

Spec == Init /\ [][Next]_vars

\* Termination is checked on the runs of one configuration (the large budget,
\* no overwriting, no dimension limit), with every number of threads and
\* every job set.  The scheduler runs every thread that can take a step; the
\* caller goes on to construct the processor and to call process_all.
ConstructDefault ==
  \E threads \in Workers : BatchProcessorCtor(1000, threads, FALSE, 0, 0)

FairNext ==
  \/ ConstructDefault
  \/ AddJob
  \/ ProcessAllStart
  \/ SpawnThread
  \/ JoinThread
  \/ \E w \in Workers : Worker(w)

FairSpec ==
  /\ Init
  /\ [][FairNext]_vars
  /\ WF_vars(ConstructDefault)
  /\ WF_vars(ProcessAllStart)
  /\ WF_vars(SpawnThread)
  /\ WF_vars(JoinThread)
  /\ \A w \in Workers : WF_vars(Worker(w))

\* the constructor alone, over a range of budgets and thread counts
CtorNext ==
  \E budget \in 0 .. MaxBudgetMb, threads \in 1 .. MaxThreads :
    BatchProcessorCtor(budget, threads, FALSE, 0, 0)

CtorSpec == Init /\ [][CtorNext]_vars

\* The program is run a second time with the same arguments on the files the
\* first run left: main constructs a new processor with the same options,
\* adds the same inputs and enters process_all.
Rerun ==
  /\ pc_main = "returned"
  /\ run = 1
  /\ run' = 2
  /\ first_outcome' = outcome
  /\ pc_main' = "spawning"
  /\ job_queue' = { [input_path |-> p, output_path |-> change_extension(p),
                     estimated_memory_mb |-> estimate_memory_requirement(p)] :
                    p \in enqueued }
  /\ queue_mutex' = 0
  /\ success_count' = 0
  /\ fail_count' = 0
  /\ skip_count' = 0
  /\ spawned' = 0
  /\ joined' = 0
  /\ pc' = [w \in Workers |-> "unspawned"]
  /\ current_job' = [w \in Workers |-> NoJob]
  /\ max_memory_arg' = [w \in Workers |-> 0]
  /\ result' = [w \in Workers |-> "none"]
  /\ popped' = << >>
  /\ invoked' = [p \in Paths |-> 0]
  /\ warned' = {}
  /\ outcome' = [p \in Paths |-> "none"]
  /\ reason' = [p \in Paths |-> "none"]
  /\ UNCHANGED << config, outputs, enqueued, console_mutex, probe,
                  exit_status >>

RerunNext ==
  \/ ConstructDefault
  \/ AddJob
  \/ ProcessAllStart
  \/ SpawnThread
  \/ JoinThread
  \/ \E w \in Workers : Worker(w)
  \/ Rerun

RerunSpec == Init /\ [][RerunNext]_vars

\* ------------------------------------------------- a conversion that hangs
\* the source whose conversion never returns once its image is decoded
StallingPath == "a.heic"

\* worker w is inside convert_heif_to_jpeg for that source
Stalled(w) == pc[w] = "encode" /\ current_job[w].input_path = StallingPath

\* a step of a worker that is not stalled
StallWorker(w) == ~Stalled(w) /\ Worker(w)

StallNext ==
  \/ ConstructDefault
  \/ AddJob
  \/ ProcessAllStart
  \/ SpawnThread
  \/ JoinThread
  \/ \E w \in Workers : StallWorker(w)

\* every thread that can take a step is scheduled, the stalled worker never
\* takes one
StallSpec ==
  /\ Init
  /\ [][StallNext]_vars
  /\ WF_vars(ConstructDefault)
  /\ WF_vars(ProcessAllStart)
  /\ WF_vars(SpawnThread)
  /\ WF_vars(JoinThread)
  /\ \A w \in Workers : WF_vars(StallWorker(w))

\* --------------------------------------- the arithmetic of the estimate
\* the largest value of the int that holds width, height and their products
IntMax == 1073741823 * 2 + 1

\* the product a * b of two non-negative ints does not fit an int
IntMulOverflows(a, b) == b > 0 /\ a > IntMax \div b

\* width * height * 3 or width * height * 4, evaluated in int, overflows
SignedOverflow(width, height) ==
  \/ IntMulOverflows(width, height)
  \/ IntMulOverflows(width * height, 4)

\* the value returned when the int products fit: the sum of the three
\* size_t terms, times 1.5, divided by 1 MiB and rounded up; the sum is kept
\* as whole MiB and a remainder below 2 MiB, the double arithmetic is exact
EstimateNoOverflow(width, height) ==
  LET rgb_memory == width * height * 3
      jpeg_memory == width * height * 4
      mib == rgb_memory \div BytesPerMb + jpeg_memory \div BytesPerMb
               + OverheadBytes \div BytesPerMb
      rest == (rgb_memory % BytesPerMb) + (jpeg_memory % BytesPerMb)
      halves == 3 * mib
  IN  halves \div 2
        + ((halves % 2) * BytesPerMb + 3 * rest + 2 * BytesPerMb - 1)
            \div (2 * BytesPerMb)

\* ceil(1.5 * (w*h*3 + w*h*4 + 10 MiB) / 1 MiB) = 15 + ceil(21*w*h / 2 MiB)
\* over the integers, for w, h < 65536, with w*h split so that no
\* intermediate value leaves the range of the model checker
ExactEstimate(w, h) ==
  LET wq == w \div 1024
      wr == w % 1024
      hq == h \div 2048
      hr == h % 2048
      low == wq * hr * 1024 + wr * hq * 2048 + wr * hr
  IN  15 + 21 * wq * hq + 21 * (low \div (2 * BytesPerMb))
         + (21 * (low % (2 * BytesPerMb)) + 2 * BytesPerMb - 1)
             \div (2 * BytesPerMb)

\* signed overflow is undefined behaviour: a build that multiplies in 64
\* bits returns the exact value, one that wraps to 32 bits returns a small
\* value or, after the conversion of a negative int to size_t, a value
\* above every budget
UndefinedEstimates(width, height) ==
  {ExactEstimate(width, height), 0, IntMax}

\* the values estimate_memory_requirement can return for a readable image of
\* the given dimensions
EstimateOutcomes(width, height) ==
  IF SignedOverflow(width, height)
    THEN UndefinedEstimates(width, height)
    ELSE {EstimateNoOverflow(width, height)}

\* the dimensions tried: multiples of DimStep
DimStep == 4 * 1024
Dimensions == { k * DimStep : k \in 0 .. MaxDimSteps }

\* one call of estimate_memory_requirement on a readable image
EstimateCall ==
  \E width \in Dimensions, height \in Dimensions :
    \E r \in EstimateOutcomes(width, height) :
      /\ probe' = [called |-> TRUE, width |-> width, height |-> height,
                   result |-> r]
      /\ UNCHANGED << mainvars, config, job_queue, queue_mutex, counters, pc,
                      locals, outputs, history, console_mutex, run,
                      first_outcome, exit_status >>

EstimateSpec == Init /\ [][EstimateCall]_vars

\* ------------------------------------------- runs with dimension limits
\* the values given to --max-width and --max-height: none, one between the
\* sizes of the images, one below all but the smallest
LimitValues == {0, 1200, 2500}

\* one thread, the smallest ceiling, overwriting allowed, every pair of limits
ConstructLimits ==
  \E mw \in LimitValues, mh \in LimitValues :
    BatchProcessorCtor(0, 1, TRUE, mw, mh)

LimitNext ==
  \/ ConstructLimits
  \/ AddJob
  \/ ProcessAllStart
  \/ SpawnThread
  \/ JoinThread
  \/ \E w \in Workers : Worker(w)

LimitSpec == Init /\ [][LimitNext]_vars

\* ------------------------------------------------------------ properties
Running == { w \in Workers : pc[w] # "unspawned" }
Started == 1 .. thread_count
Cost(p) == estimate_memory_requirement(p)
PoppedPaths == { popped[i].input_path : i \in DOMAIN popped }
Holders(p) == { w \in Workers : current_job[w].input_path = p }

\* C1: when process_all has returned, succeeded + failed + skipped equals the
\* number of jobs that were enqueued.
CountersSumToJobs ==
  pc_main = "returned" =>
    success_count + fail_count + skip_count = Cardinality(enqueued)

CountersSumToJobsWitness ==
  /\ pc_main = "returned"
  /\ thread_count = 2
  /\ success_count > 0
  /\ fail_count > 0
  /\ skip_count > 0

\* C2: every job is removed from the queue at most once, process_file is
\* called at most once for it, at most one worker holds it, and a removed job
\* is never in the queue again.
ExactlyOnceDelivery ==
  /\ \A i, k \in DOMAIN popped : popped[i] = popped[k] => i = k
  /\ \A i \in DOMAIN popped : popped[i] \notin job_queue
  /\ \A p \in Paths : invoked[p] <= 1 /\ Cardinality(Holders(p)) <= 1
  /\ \A p \in Paths : outcome[p] # "none" => Holders(p) = {} /\ p \in PoppedPaths

ExactlyOnceDeliveryWitness ==
  /\ thread_count = 2
  /\ Len(popped) >= 3
  /\ \E p \in Paths : outcome[p] = "fail"
  /\ \E w \in Workers : pc[w] = "encode"

\* C3: the jobs removed from the queue, in the global order of removal, are
\* non-decreasing in estimated_memory_mb.
PopOrderNonDecreasing ==
  \A i, k \in DOMAIN popped :
    i < k => popped[i].estimated_memory_mb <= popped[k].estimated_memory_mb

PopOrderNonDecreasingWitness ==
  /\ thread_count = 2
  /\ Len(popped) >= 3
  /\ popped[1].estimated_memory_mb < popped[2].estimated_memory_mb
  /\ popped[2].estimated_memory_mb < popped[3].estimated_memory_mb

\* C4: under fair scheduling every spawned worker sees the empty queue and
\* exits, and process_all returns.
Terminates ==
  <>( /\ pc_main = "returned"
      /\ job_queue = {}
      /\ \A w \in Started : pc[w] = "drained" )

TerminatesWitness ==
  /\ pc_main = "returned"
  /\ thread_count > Cardinality(enqueued)
  /\ \A w \in Started : pc[w] = "drained"

\* C5: process_all has spawned exactly thread_count workers when it returns,
\* all of them have exited, the queue is empty, nobody is converting or
\* recording, and the counters do not change after the return.
ProcessAllPostcondition ==
  /\ [](pc_main = "returned" =>
          /\ spawned = thread_count
          /\ Running = Started
          /\ \A w \in Running : pc[w] = "drained"
          /\ job_queue = {}
          /\ \A w \in Workers : pc[w] \notin {"process_file", "encode", "record"})
  /\ [][pc_main = "returned" => counters' = counters]_vars

ProcessAllPostconditionWitness ==
  /\ pc_main = "returned"
  /\ thread_count = 2
  /\ Len(popped) >= 2
  /\ success_count >= 1

\* C6: the per-worker ceiling is max(100, total_budget_mb div worker_count),
\* so it is at least 100.
CeilingIsFlooredQuotient ==
  pc_main # "construct" =>
    /\ memory_per_thread_mb >= 100
    /\ memory_per_thread_mb * thread_count >= memory_budget_mb - (thread_count - 1)
    /\ \/ memory_per_thread_mb = 100
       \/ /\ memory_per_thread_mb * thread_count <= memory_budget_mb
          /\ memory_per_thread_mb * thread_count > memory_budget_mb - thread_count
    /\ (memory_budget_mb = 50 /\ thread_count = 4 => memory_per_thread_mb = 100)

CeilingIsFlooredQuotientWitness ==
  /\ pc_main = "adding"
  /\ memory_budget_mb = 50
  /\ thread_count = 4
  /\ memory_per_thread_mb = 100

\* C7: a job whose estimate exceeds the ceiling is warned about and handed to
\* process_file exactly once, and is recorded in a counter.
OverCeiling(p) == Cost(p) > memory_per_thread_mb

BestEffortAdmission ==
  \A p \in PoppedPaths :
    OverCeiling(p) =>
      /\ invoked[p] <= 1
      /\ \A w \in Holders(p) :
           /\ pc[w] # "admit" => p \in warned
           /\ pc[w] \in {"encode", "record"} => invoked[p] = 1
      /\ Holders(p) = {} =>
           /\ p \in warned
           /\ invoked[p] = 1
           /\ outcome[p] \in {"success", "fail", "skip"}

BestEffortAdmissionWitness ==
  \E p \in PoppedPaths :
    /\ OverCeiling(p)
    /\ memory_per_thread_mb = 100
    /\ p \in warned
    /\ invoked[p] = 1
    /\ outcome[p] # "none"

\* C8: no job is failed because of its memory estimate, and a job over the
\* ceiling that decodes and whose destination is free is recorded as
\* succeeded.
AdmissionWarningNonFatal ==
  \A p \in Paths :
    /\ reason[p] # "memory"
    /\ ( /\ p \in warned
         /\ outcome[p] # "none"
         /\ File(p).decode_ok
         /\ reason[p] \notin {"output_exists", "dimension"} )
       => outcome[p] = "success"

\* C9: with a total budget of 0 no estimate is compared with a ceiling: no
\* warning is issued and no job is failed for memory.
ZeroBudgetSkipsAdmission ==
  (pc_main # "construct" /\ memory_budget_mb = 0) =>
    /\ warned = {}
    /\ \A p \in Paths : reason[p] # "memory"

\* C10: a worker that has recorded an outcome goes back to fetching, a
\* worker exits only on an empty queue, a failure adds 1 to fail_count and
\* changes no other counter, and no job stays in the queue.
FailureIsolation ==
  /\ [][\A w \in Workers :
          /\ (pc[w] = "record" /\ pc'[w] # "record") =>
                /\ pc'[w] = "fetch"
                /\ result[w] = "fail" =>
                     /\ fail_count' = fail_count + 1
                     /\ success_count' = success_count
                     /\ skip_count' = skip_count
          /\ (pc[w] # "drained" /\ pc'[w] = "drained") =>
                pc[w] = "locked" /\ job_queue = {}]_vars
  /\ [](pc_main = "returned" => job_queue = {})

FailureIsolationWitness ==
  /\ thread_count = 1
  /\ fail_count >= 1
  /\ skip_count >= 1
  /\ pc[1] = "admit"

\* the outcome of source p when no other job of the run writes its
\* destination: what process_file returns for it on the files as they are
\* before the run
FixedOutcome(p) ==
  LET f == File(p)
  IN  IF ~f.exists \/ ~f.regular THEN "fail"
      ELSE IF f.ext # ".heic" /\ f.ext # ".heif" THEN "skip"
      ELSE IF InitialOutputs[change_extension(p)] # "absent" /\ ~force_overwrite
        THEN "skip"
      ELSE IF ConvertCheck(p, memory_per_thread_mb) # "none" THEN "fail"
      ELSE "success"
DistinctDestinations ==
  \A p, q \in enqueued : p # q => change_extension(p) # change_extension(q)
FixedTotal(kind) == Cardinality({ p \in enqueued : FixedOutcome(p) = kind })

Completed == { p \in PoppedPaths : Holders(p) = {} }
CounterSum == success_count + fail_count + skip_count

\* C12: the three counters are never negative and never decrease; a step
\* that records a result adds one to exactly one counter and leaves the other
\* two alone; the sum of the counters is the number of completed jobs and is
\* at most the number of jobs enqueued.
CountersMonotone ==
  [][ /\ success_count >= 0 /\ fail_count >= 0 /\ skip_count >= 0
      /\ success_count' >= success_count
      /\ fail_count' >= fail_count
      /\ skip_count' >= skip_count
      /\ CounterSum = Cardinality(Completed)
      /\ CounterSum <= Cardinality(enqueued)
      /\ \A w \in Workers :
           (pc[w] = "record" /\ pc'[w] # "record") =>
              /\ CounterSum' = CounterSum + 1
              /\ success_count' = success_count + 1 <=> result[w] = "success"
              /\ fail_count' = fail_count + 1 <=> result[w] = "fail"
              /\ skip_count' = skip_count + 1 <=> result[w] = "skip"
      /\ (\A w \in Workers : ~(pc[w] = "record" /\ pc'[w] # "record")) =>
              counters' = counters ]_vars

CountersMonotoneWitness ==
  /\ thread_count = 2
  /\ success_count = 0 /\ fail_count = 1 /\ skip_count = 0
  /\ \E w \in Workers : pc[w] = "record" /\ result[w] = "skip"
  /\ \E w \in Workers : pc[w] \in {"process_file", "encode"}

Recognized(p) == File(p).ext = ".heic" \/ File(p).ext = ".heif"
SourceUsable(p) == File(p).exists /\ File(p).regular
\* the destination of p is there before the run and may not be overwritten
DestinationKept(p) ==
  InitialOutputs[change_extension(p)] # "absent" /\ ~force_overwrite
ConversionFailures == {"dimension", "memory", "read", "decode"}
Recorded(p) == outcome[p] # "none"

SkippedInBothRuns ==
  \A p \in enqueued : DestinationKept(p) =>
     /\ outputs[change_extension(p)] = InitialOutputs[change_extension(p)]
     /\ Recorded(p) => outcome[p] = "skip"
     /\ run = 2 => first_outcome[p] = "skip"

\* C14 amended: with overwriting off, a job whose source is an existing
\* regular file and whose destination exists before the first run is
\* recorded as skipped in the first and in the second run, and the
\* destination keeps its content.
UsableSourceSkippedInBothRuns ==
  \A p \in enqueued : (SourceUsable(p) /\ DestinationKept(p)) =>
     /\ outputs[change_extension(p)] = InitialOutputs[change_extension(p)]
     /\ Recorded(p) => outcome[p] = "skip"
     /\ run = 2 => first_outcome[p] = "skip"

UsableSourceSkippedInBothRunsWitness ==
  /\ run = 2
  /\ pc_main = "returned"
  /\ \E p \in enqueued :
       /\ SourceUsable(p) /\ DestinationKept(p)
       /\ first_outcome[p] = "skip" /\ outcome[p] = "skip"
       /\ outputs[change_extension(p)] = "old"
  /\ \E p \in enqueued : first_outcome[p] = "success" /\ outcome[p] = "skip"

\* worker w is in its loop and cannot take a step
Waiting(w) ==
  /\ pc[w] \notin {"unspawned", "drained"}
  /\ ~ENABLED (ConsoleLock(w) \/ ConsoleWorker(w))
WaitsForQueue(w) == pc[w] = "fetch" /\ queue_mutex \notin {0, w}
WaitsForConsole(w) == CallsThreadSafePrint(w) /\ console_mutex \notin {0, w}

\* C15 as stated: a worker acquires no lock other than the queue mutex, and a
\* worker that cannot take a step is waiting for the queue mutex.
OnlyQueueMutexBlocks ==
  \A w \in Workers :
     /\ console_mutex # w
     /\ Waiting(w) => WaitsForQueue(w)

\* C15 amended: the locks a worker acquires are the queue mutex and the
\* console mutex of thread_safe_print; it never holds both, it holds the
\* console mutex only for the printing of one message, and a worker that
\* cannot take a step is waiting for one of the two.
OnlyQueueAndConsoleBlock ==
  \A w \in Workers :
     /\ ~(queue_mutex = w /\ console_mutex = w)
     /\ console_mutex = w => CallsThreadSafePrint(w)
     /\ queue_mutex = w => pc[w] = "locked"
     /\ Waiting(w) => (WaitsForQueue(w) \/ WaitsForConsole(w))

OnlyQueueAndConsoleBlockWitness ==
  \E w, v \in Workers :
     /\ w # v
     /\ console_mutex = w
     /\ pc[w] = "encode"
     /\ Waiting(v) /\ WaitsForConsole(v)
     /\ queue_mutex = 0
     /\ job_queue # {}

InCriticalSection == { w \in Workers : pc[w] = "locked" }

\* C16: at most one thread at a time is inside the queue's critical section
\* and it is the holder of queue_mutex; the queue changes only by the push of
\* add_job with the mutex free or by the step of the holder that tests
\* empty(), takes top() and pops within one scope of the lock; no worker
\* holds the mutex in its admission check, conversion or counter update.
QueueLockDiscipline ==
  [][ /\ Cardinality(InCriticalSection) <= 1
      /\ \A w \in Workers :
           /\ pc[w] = "locked" <=> queue_mutex = w
           /\ pc[w] \in {"admit", "process_file", "encode", "record"}
                => queue_mutex # w
      /\ job_queue' # job_queue =>
           \/ /\ pc_main = "adding" /\ queue_mutex = 0 /\ queue_mutex' = 0
              /\ \E j \in job_queue' : job_queue' = job_queue \cup {j}
           \/ \E w \in Workers :
                /\ queue_mutex = w /\ pc[w] = "locked"
                /\ queue_mutex' = 0 /\ pc'[w] = "admit"
                /\ job_queue # {}
                /\ current_job'[w] \in Top(job_queue)
                /\ job_queue' = job_queue \ {current_job'[w]}
      /\ \A w \in Workers :
           (pc[w] = "locked" /\ pc'[w] = "drained") => job_queue = {}
    ]_vars

QueueLockDisciplineWitness ==
  /\ thread_count = 2
  /\ \E w, v \in Workers :
       /\ pc[w] = "locked" /\ queue_mutex = w
       /\ pc[v] = "fetch"
       /\ job_queue # {}
       /\ success_count + fail_count + skip_count >= 1

\* every job but the one of a stalled worker is recorded, the queue is empty
\* and every worker but a stalled one has returned
OthersDone ==
  /\ pc_main \in {"joining", "returned"}
  /\ job_queue = {}
  /\ \A w \in Started : pc[w] = "drained" \/ Stalled(w)
  /\ \A p \in enqueued :
       Recorded(p) \/ \E w \in Started : Stalled(w) /\ current_job[w].input_path = p
  /\ CounterSum = Cardinality({ p \in enqueued : Recorded(p) })

\* C17: when the conversion of one job never returns and there are at least
\* two workers, every other job is eventually taken from the queue, converted
\* and recorded and every other worker returns; the stalled worker stays in
\* its conversion and process_all never returns.
StallIsolation ==
  /\ <>(pc_main # "construct" /\ (thread_count >= 2 => OthersDone))
  /\ [][\A w \in Workers : Stalled(w) => Stalled(w)']_vars
  /\ []((\E w \in Workers : Stalled(w)) => pc_main # "returned")

StallIsolationWitness ==
  /\ thread_count = 2
  /\ \E w \in Started : Stalled(w)
  /\ OthersDone
  /\ Cardinality(enqueued) = 3
  /\ CounterSum = 2
  /\ pc_main = "joining"

InConversionStep(w) == pc[w] \in {"process_file", "encode", "record"}
EstimateAtEnqueue(j) ==
  j.estimated_memory_mb = estimate_memory_requirement(j.input_path)

\* C18: after the constructor memory_per_thread_mb never changes; the limit a
\* worker passes to process_file is that value for every job, over the
\* ceiling or not; the estimate of a job is the one computed when it was
\* enqueued, in the queue, in the worker and after.
CeilingPassedUnchanged ==
  [][ /\ pc_main # "construct" =>
           /\ memory_per_thread_mb' = memory_per_thread_mb
           /\ memory_per_thread_mb = PerThreadMb(memory_budget_mb, thread_count)
      /\ \A w \in Workers :
           InConversionStep(w) => max_memory_arg[w] = memory_per_thread_mb
      /\ \A j \in job_queue : EstimateAtEnqueue(j)
      /\ \A i \in DOMAIN popped : EstimateAtEnqueue(popped[i])
      /\ \A w \in Workers :
           current_job[w] # NoJob => EstimateAtEnqueue(current_job[w])
      /\ \A w \in Workers :
           (current_job[w] # NoJob /\ current_job'[w] # NoJob)
             => current_job'[w] = current_job[w]
    ]_vars

CeilingPassedUnchangedWitness ==
  \E w \in Workers :
     /\ pc[w] = "process_file"
     /\ current_job[w].estimated_memory_mb > memory_per_thread_mb
     /\ max_memory_arg[w] = memory_per_thread_mb
     /\ \E p \in enqueued :
          /\ Recorded(p) /\ Cost(p) > 0 /\ Cost(p) <= memory_per_thread_mb
          /\ reason[p] # "memory"

\* the source cannot be opened or has no readable primary image
Unreadable(p) == ~File(p).exists \/ ~File(p).heif_ok
JobsOf(p) ==
  { j \in job_queue : j.input_path = p }
    \cup { popped[i] : i \in { k \in DOMAIN popped : popped[k].input_path = p } }
    \cup { current_job[w] : w \in Holders(p) }

\* C19: a source whose estimate cannot be computed is enqueued with the
\* estimate 0; it is never warned about by the worker and never failed by
\* the memory check of the conversion, whatever the budget, and it is passed
\* to process_file once like every other job.
EstimateFailureIsSoft ==
  \A p \in enqueued : Unreadable(p) =>
     /\ JobsOf(p) # {} \/ Recorded(p)
     /\ \A j \in JobsOf(p) : j.estimated_memory_mb = 0
     /\ p \notin warned
     /\ reason[p] # "memory"
     /\ Recorded(p) => (invoked[p] = 1 /\ p \in PoppedPaths)
     /\ pc_main = "returned" => Recorded(p)

EstimateFailureIsSoftWitness ==
  /\ pc_main = "returned"
  /\ memory_per_thread_mb = MinMemoryPerThreadMb
  /\ \E p \in enqueued :
       /\ Unreadable(p) /\ File(p).exists
       /\ Recorded(p) /\ reason[p] = "read" /\ invoked[p] = 1
  /\ \E q \in enqueued : q \in warned /\ reason[q] = "memory"

\* C20 as stated: for every width and height the estimate returned is
\* ceil(1.5 * (w*h*3 + w*h*4 + 10 MiB) / 1 MiB), the value over the integers
\* with no wrap-around in the products.
EstimateIsExact ==
  probe.called => probe.result = ExactEstimate(probe.width, probe.height)

\* process_file called convert_heif_to_jpeg for p
ReachedConvert(p) ==
  /\ Recorded(p)
  /\ reason[p] \notin {"missing", "not_regular", "extension", "output_exists"}
WidthExceeded(p) == max_width > 0 /\ File(p).width > max_width
HeightExceeded(p) == max_height > 0 /\ File(p).height > max_height

\* C21: a job that reaches convert_heif_to_jpeg and whose dimensions can be
\* read is failed for its dimensions, before it is decoded and without its
\* destination being written, exactly when a limit above 0 is exceeded by
\* the width or by the height; a limit of 0 rejects nothing, and with both
\* limits 0 no job is failed for its dimensions.
DimensionCheck ==
  /\ \A p \in Paths : (ReachedConvert(p) /\ get_heif_dimensions(p)) =>
       /\ (WidthExceeded(p) \/ HeightExceeded(p)) <=> reason[p] = "dimension"
       /\ reason[p] = "dimension" =>
            (outcome[p] = "fail" /\ outputs[change_extension(p)] # p)
  /\ \A p \in Paths : reason[p] = "dimension" => get_heif_dimensions(p)
  /\ (max_width = 0 /\ max_height = 0) =>
        \A p \in Paths : reason[p] # "dimension"

DimensionCheckWitness ==
  /\ pc_main = "returned"
  /\ max_width = 0 /\ max_height > 0
  /\ \E p \in enqueued :
       /\ reason[p] = "dimension" /\ HeightExceeded(p)
       /\ Cost(p) <= memory_per_thread_mb
  /\ \E p \in enqueued :
       outcome[p] = "success" /\ File(p).width > 0

\* the job of source p has opened its destination for writing
OpenedDestination(p) ==
  \/ outcome[p] = "success"
  \/ \E w \in Holders(p) : pc[w] = "record" /\ result[w] = "success"

\* C22: without overwriting, no two jobs of a run open the same destination
\* for writing, also when two sources of the batch have the same destination
\* and are processed by different workers.
OneWriterPerDestination ==
  ~force_overwrite =>
     \A p, q \in enqueued :
        (p # q /\ change_extension(p) = change_extension(q))
          => ~(OpenedDestination(p) /\ OpenedDestination(q))

\* C23 as stated: a job that reaches convert_heif_to_jpeg is failed for
\* memory exactly when the worker warned about it, and a job whose estimate
\* is at most the ceiling is never failed for memory.
MemoryCheckIffWarned ==
  \A p \in Paths : ReachedConvert(p) =>
     /\ reason[p] = "memory" <=> p \in warned
     /\ Cost(p) <= memory_per_thread_mb => reason[p] # "memory"

\* C23 amended: a job that reaches convert_heif_to_jpeg is failed for memory
\* exactly when the worker warned about it and the dimension check, which
\* comes first, did not already reject it; a job failed for memory or for
\* its dimensions is not decoded and does not write its destination; a job
\* whose estimate is at most the ceiling is never failed for memory.
MemoryCheckIffWarnedAndWithinLimits ==
  \A p \in Paths : ReachedConvert(p) =>
     /\ reason[p] = "memory" <=> (p \in warned /\ reason[p] # "dimension")
     /\ p \in warned <=> Cost(p) > memory_per_thread_mb
     /\ p \in warned => (outcome[p] = "fail" /\ outputs[change_extension(p)] # p)
     /\ Cost(p) <= memory_per_thread_mb => reason[p] # "memory"

MemoryCheckIffWarnedAndWithinLimitsWitness ==
  /\ pc_main = "returned"
  /\ \E p \in enqueued :
       p \in warned /\ reason[p] = "dimension" /\ WidthExceeded(p)
  /\ \E p \in enqueued :
       /\ Cost(p) > 0 /\ Cost(p) <= memory_per_thread_mb
       /\ outcome[p] = "success"

SomeWorkerExited == \E w \in Workers : pc[w] = "drained"

\* C24: in every state in which some worker has returned the queue is empty
\* and every enqueued job has been popped; the queue stays empty from then
\* on, and nothing is left in it when process_all returns.
EmptyOnceDrained ==
  [][ /\ SomeWorkerExited =>
           /\ job_queue = {}
           /\ enqueued = PoppedPaths
           /\ job_queue' = {}
           /\ enqueued' = enqueued
      /\ pc_main = "returned" => job_queue = {}
    ]_vars

EmptyOnceDrainedWitness ==
  /\ thread_count = 2
  /\ Cardinality(enqueued) = 3
  /\ \E w, v \in Workers :
       /\ pc[w] = "drained"
       /\ pc[v] \in {"process_file", "encode"}
  /\ job_queue = {}

BeforeOpenReasons ==
  {"missing", "not_regular", "extension", "output_exists",
   "dimension", "memory", "read", "decode"}
SoleSourceOfDestination(p) ==
  \A q \in enqueued : q # p => change_extension(q) # change_extension(p)

\* C25: a job recorded as skipped, or as failed for a missing or non-regular
\* input, for the dimension check, for the memory check or for a read or
\* decode error, has not written its destination: the step that decides it
\* leaves every destination as it is, and a destination no other job has is
\* as it was before the run; destinations change only in the step that
\* follows a successful decode.
DestinationUntouchedUnlessDecoded ==
  [][ /\ \A w \in Workers :
           (pc[w] = "process_file" /\ pc'[w] = "record") =>
              /\ outputs' = outputs
              /\ result'[w] \in {"skip", "fail"}
              /\ reason'[current_job[w].input_path] \in BeforeOpenReasons
      /\ \A p \in Paths :
           (outcome[p] \in {"skip", "fail"} /\ reason[p] \in BeforeOpenReasons) =>
              /\ outputs[change_extension(p)] # p
              /\ SoleSourceOfDestination(p) =>
                   outputs[change_extension(p)] = InitialOutputs[change_extension(p)]
      /\ outputs' # outputs =>
           \E w \in Workers :
              /\ pc[w] = "encode" /\ reason[current_job[w].input_path] = "none"
              /\ outputs' = [outputs EXCEPT ![current_job[w].output_path] =
                                              current_job[w].input_path]
    ]_vars

DestinationUntouchedUnlessDecodedWitness ==
  /\ pc_main = "returned"
  /\ \E p \in enqueued :
       /\ outcome[p] = "skip" /\ reason[p] = "output_exists"
       /\ outputs[change_extension(p)] = "old"
  /\ \E p \in enqueued :
       /\ outcome[p] = "fail" /\ reason[p] \in {"memory", "read", "decode"}
       /\ SoleSourceOfDestination(p)
       /\ outputs[change_extension(p)] = "absent"
  /\ \E p \in enqueued :
       outcome[p] = "fail" /\ reason[p] = "missing"
         /\ outputs[change_extension(p)] = "old"

\* C26: when main has returned after the batch, its status is 1 if the final
\* fail_count is above 0 and 0 otherwise; skipped jobs do not make it 1.
ExitStatusIsFailure ==
  pc_main = "exited" =>
     /\ exit_status \in {0, 1}
     /\ exit_status = 1 <=> fail_count > 0
     /\ fail_count = Cardinality({ p \in enqueued : outcome[p] = "fail" })
     /\ CounterSum = Cardinality(enqueued)

ExitStatusIsFailureWitness ==
  /\ pc_main = "exited"
  /\ exit_status = 0
  /\ skip_count > 0
  /\ success_count > 0
  /\ fail_count = 0

====
